---- MODULE Spec2Model ----
(***************************************************************************)
(* The Crew: cards and their ranking, decks and dealing, players' hands,   *)
(* the trick, and the game coordinator (src/crew/crew.py).                 *)
(***************************************************************************)
EXTENDS Integers, Sequences, FiniteSets, TLC

VARIABLES
    num_players,                  \* Game.num_players
    attrs,                        \* the attributes set on the Game instance
    deck,                         \* Game.deck.cards
    task_deck,                    \* Game.task_deck.cards
    task_cards,                   \* Game.task_cards
    unchosen_task_cards,          \* Game.unchosen_task_cards
    trick,                        \* Game.trick
    players,                      \* Game.players, by seat 0..num_players-1
    pc,                           \* position inside Game.assign_task_cards
    player_number_selecting_task, \* local of Game.assign_task_cards
    index,                        \* local of Player.select_task_card
    err,                          \* the exception the last call raised, "" if none
    args,                         \* the cards handed to a direct comparison
    result,                       \* what the direct comparison returned
    dealt,                        \* what the last direct Deck.deal_cards returned
    runs,                         \* what each seeded shuffle-and-deal run returned
    detached                      \* a Player() constructed without a game

vars == <<num_players, attrs, deck, task_deck, task_cards, unchosen_task_cards,
          trick, players, pc, player_number_selecting_task, index, err,
          args, result, dealt, runs, detached>>

(***************************************************************************)
(* Bounds of the model.                                                    *)
(***************************************************************************)
MaxPlayers == 5          \* Game(n) for n in 1..MaxPlayers
MaxTrickPlayers == 4     \* players that play into a stand-alone trick
MaxTaskCut == 1          \* shuffles of the task deck: cuts 0..MaxTaskCut
MaxTaskCards == 3        \* task cards dealt from one task deck, in all
MaxRuns == 2             \* seeded shuffle-and-deal runs that are compared

(***************************************************************************)
(* Value, Suit, Card                                                       *)
(***************************************************************************)
Values == 1..9

Suits == {"Rocket", "Blue", "Green", "Pink", "Yellow"}

\* The value of each StrEnum member, as the code points of its string.
SuitValue(suit) ==
    CASE suit = "Rocket" -> <<82, 111, 99, 107, 101, 116>>
      [] suit = "Blue"   -> <<66, 108, 117, 101>>
      [] suit = "Green"  -> <<71, 114, 101, 101, 110>>
      [] suit = "Pink"   -> <<80, 105, 110, 107>>
      [] suit = "Yellow" -> <<89, 101, 108, 108, 111, 119>>

\* str.__gt__: lexicographic comparison of two strings.
RECURSIVE StrGt(_, _)
StrGt(x, y) ==
    IF x = <<>> THEN FALSE
    ELSE IF y = <<>> THEN TRUE
    ELSE IF Head(x) # Head(y) THEN Head(x) > Head(y)
    ELSE StrGt(Tail(x), Tail(y))

\* Position of a suit in the order the enum declares its members.
SuitDeclIndex(suit) ==
    CASE suit = "Rocket" -> 0
      [] suit = "Blue"   -> 1
      [] suit = "Green"  -> 2
      [] suit = "Pink"   -> 3
      [] suit = "Yellow" -> 4

\* Suit.__gt__ (inherited from str).
SuitGtByDeclaration(a, b) == SuitDeclIndex(a) < SuitDeclIndex(b)
SuitGt(a, b) == StrGt(SuitValue(a), SuitValue(b))

Card(value, suit) == [value |-> value, suit |-> suit]

\* Python's None where a Card or a Suit is expected.
NoneCard == [value |-> 0, suit |-> "None"]
NoneSuit == "None"

\* Card.__gt__
CardGtNoTrump(self, other) ==
    IF self.suit = other.suit THEN self.value > other.value
    ELSE SuitGt(self.suit, other.suit)
CardGtOrEqual(self, other) ==
    IF self.suit = other.suit THEN self.value >= other.value
    ELSE IF self.suit = "Rocket" THEN TRUE
    ELSE IF other.suit = "Rocket" THEN FALSE
    ELSE SuitGt(self.suit, other.suit)
CardGt(self, other) ==
    IF self.suit = other.suit THEN self.value > other.value
    ELSE IF self.suit = "Rocket" THEN TRUE
    ELSE IF other.suit = "Rocket" THEN FALSE
    ELSE SuitGt(self.suit, other.suit)

\* a < b on Cards: Card defines no __lt__, so Python evaluates b.__gt__(a).
CardLt(a, b) == CardGt(b, a)

\* max(a, b): the first argument unless the second is greater.
PyFirst(a, b) == a
PyMax(a, b) == IF CardGt(b, a) THEN b ELSE a

Range(s) == {s[i] : i \in 1..Len(s)}

(***************************************************************************)
(* Deck                                                                    *)
(***************************************************************************)
blue_cards == [v \in 1..9 |-> Card(v, "Blue")]
green_cards == [v \in 1..9 |-> Card(v, "Green")]
pink_cards == [v \in 1..9 |-> Card(v, "Pink")]
yellow_cards == [v \in 1..9 |-> Card(v, "Yellow")]
RocketCardsAllValues == [v \in 1..9 |-> Card(v, "Rocket")]
rocket_cards == [v \in 1..4 |-> Card(v, "Rocket")]

\* CardDeck.num_cards
CardDeckNumCards == 40

\* The cards of a CardDeck / TaskDeck before the constructor shuffles them.
CardDeckCards ==
    blue_cards \o green_cards \o pink_cards \o yellow_cards \o rocket_cards
TaskDeckCards == blue_cards \o green_cards \o pink_cards \o yellow_cards

Rocket4 == Card(4, "Rocket")

\* list.sort(): the stable ascending arrangement under <.  before[i] counts
\* the elements that end up before s[i]: those less than it, and the earlier
\* ones it is not less than.
SortedBefore(s) ==
    SubSeq([i \in 1..Len(s) |->
               Cardinality({j \in 1..Len(s) :
                   \/ CardLt(s[j], s[i])
                   \/ (j < i /\ ~CardLt(s[i], s[j]))})], 1, Len(s))

Arrange(s, before) ==
    SubSeq([k \in 1..Len(s) |-> s[CHOOSE i \in 1..Len(s) : before[i] = k - 1]],
           1, Len(s))

SortCards(s) == Arrange(s, SortedBefore(s))

\* Deck.shuffle: random.shuffle may leave any permutation; the model draws
\* the outcome among the cuts of the sequence at the positions in `cuts`.
Rotate(cards, k) ==
    [i \in 1..Len(cards) |-> cards[((i - 1 + k) % Len(cards)) + 1]]
Shuffle(cards, cuts) == {Rotate(cards, k) : k \in cuts}

\* Deck.deal_cards: num_cards pops from the end of the list.  A pop from the
\* emptied list raises IndexError after the cards before it were popped.
DeckDealCardsKeep(cards, num_cards) ==
    IF num_cards <= Len(cards)
    THEN [dealt |-> [i \in 1..num_cards |-> cards[Len(cards) + 1 - i]],
          cards |-> cards,
          err |-> ""]
    ELSE [dealt |-> <<>>, cards |-> <<>>, err |-> "IndexError"]
DeckDealCardsFromFront(cards, num_cards) ==
    IF num_cards <= Len(cards)
    THEN [dealt |-> [i \in 1..num_cards |-> cards[i]],
          cards |-> SubSeq(cards, num_cards + 1, Len(cards)),
          err |-> ""]
    ELSE [dealt |-> <<>>, cards |-> <<>>, err |-> "IndexError"]
DeckDealCards(cards, num_cards) ==
    IF num_cards <= Len(cards)
    THEN [dealt |-> [i \in 1..num_cards |-> cards[Len(cards) + 1 - i]],
          cards |-> SubSeq(cards, 1, Len(cards) - num_cards),
          err |-> ""]
    ELSE [dealt |-> <<>>, cards |-> <<>>, err |-> "IndexError"]

(***************************************************************************)
(* Trick                                                                   *)
(***************************************************************************)
\* Trick.__init__.  cards is the dict in insertion order.
TrickInit == [cards |-> <<>>, highest_card |-> NoneCard, starting_suit |-> NoneSuit]

TrickPlayers(t) == {t.cards[i].player : i \in 1..Len(t.cards)}

\* self.cards[player] = card: a new key is appended, an existing key keeps
\* its place and gets the new value.
DictSet(cards, player, card) ==
    IF \E i \in 1..Len(cards) : cards[i].player = player
    THEN [i \in 1..Len(cards) |->
             IF cards[i].player = player
             THEN [player |-> player, card |-> card] ELSE cards[i]]
    ELSE Append(cards, [player |-> player, card |-> card])

\* Trick.play_card
TrickPlayCardMax(t, player, card) ==
    LET cards == DictSet(t.cards, player, card) IN
    IF Len(cards) = 1
    THEN [cards |-> cards, highest_card |-> card, starting_suit |-> card.suit]
    ELSE [t EXCEPT !.cards = cards, !.highest_card = PyMax(card, t.highest_card)]
TrickPlayCard(t, player, card) ==
    LET cards == DictSet(t.cards, player, card) IN
    IF Len(cards) = 1
    THEN [cards |-> cards, highest_card |-> card, starting_suit |-> card.suit]
    ELSE IF t.highest_card.suit = "Rocket"
    THEN IF card.suit = "Rocket"
         THEN [t EXCEPT !.cards = cards, !.highest_card = PyMax(card, t.highest_card)]
         ELSE [t EXCEPT !.cards = cards]
    ELSE IF card.suit = t.highest_card.suit
         THEN [t EXCEPT !.cards = cards, !.highest_card = PyMax(card, t.highest_card)]
         ELSE [t EXCEPT !.cards = cards]

\* Trick.winning_card
winning_card(t) == t.highest_card

\* Trick.winning_player: the first player, in insertion order, whose card
\* equals the highest card; None (-1) when there is none.
WinningPlayerLast(t) ==
    IF t.cards = <<>> THEN -1 ELSE t.cards[Len(t.cards)].player
winning_player(t) ==
    LET hits == {i \in 1..Len(t.cards) : t.cards[i].card = t.highest_card} IN
    IF hits = {} THEN -1
    ELSE t.cards[CHOOSE i \in hits : \A j \in hits : i <= j].player

(***************************************************************************)
(* Player                                                                  *)
(***************************************************************************)
\* Player.__init__.  hand_is_starting_hand records that the attributes hand
\* and starting_hand refer to one and the same list object.
PlayerInit ==
    [starting_hand |-> <<>>, hand |-> <<>>, hand_is_starting_hand |-> FALSE,
     tasks |-> <<>>]

\* An in-place change of the list self.hand refers to: every attribute that
\* refers to that list sees it.
SetHandList(player, cards) ==
    IF player.hand_is_starting_hand
    THEN [player EXCEPT !.hand = cards, !.starting_hand = cards]
    ELSE [player EXCEPT !.hand = cards]

\* Player.sort_hand
PlayerSortHand(player) == SetHandList(player, SortCards(player.hand))

\* Player.draw (sort = True)
PlayerDraw(player, cards) ==
    PlayerSortHand([player EXCEPT !.starting_hand = cards, !.hand = cards,
                                  !.hand_is_starting_hand = TRUE])

\* Player.is_commander
is_commander(player) == Rocket4 \in Range(player.starting_hand)

\* list.remove(card): drops the first element equal to card.
ListRemoveNothing(s, card) == s
ListRemove(s, card) ==
    LET i == CHOOSE i \in 1..Len(s) : s[i] = card /\ \A j \in 1..(i - 1) : s[j] # card
    IN SubSeq(s, 1, i - 1) \o SubSeq(s, i + 1, Len(s))

(***************************************************************************)
(* Game                                                                    *)
(***************************************************************************)
Seats == 0..(num_players - 1)

\* The outcomes of the shuffles the model draws from.
CardDeckCuts == {0, 13, 26, 39}
TaskDeckCuts == 0..MaxTaskCut

\* The cards callers hand to play_card.
PlayCards == {Card(3, "Blue"), Card(8, "Blue"), Card(7, "Green"), Rocket4}

\* Game.commander: the first player, in seating order, that is commander;
\* None (-1) when there is none.
commander ==
    LET hits == {p \in Seats : is_commander(players[p])} IN
    IF hits = {} THEN -1 ELSE CHOOSE p \in hits : \A q \in hits : p <= q

\* num_cards_per_player in Game.deal_cards
NumCardsPerPlayerCeil(n) == (CardDeckNumCards + n - 1) \div n
NumCardsPerPlayer(n) == CardDeckNumCards \div n

\* The loop of Game.deal_cards from seat on: each player draws what the deck
\* deals; a failing deal ends the loop with the exception.
RECURSIVE DealFrom(_, _, _, _)
DealFrom(seat, d, ps, per) ==
    IF seat >= num_players THEN [deck |-> d, players |-> ps, err |-> ""]
    ELSE LET r == DeckDealCards(d, per) IN
         IF r.err # "" THEN [deck |-> r.cards, players |-> ps, err |-> r.err]
         ELSE DealFrom(seat + 1, r.cards,
                       [ps EXCEPT ![seat] = PlayerDraw(ps[seat], r.dealt)], per)

GameDealCards(d, ps) == DealFrom(0, d, ps, NumCardsPerPlayer(num_players))

\* Game.__init__(n)
GameInit(n) ==
    /\ num_players = n
    /\ attrs = {}
    /\ deck = <<>>
    /\ task_deck = <<>>
    /\ task_cards = <<>>
    /\ unchosen_task_cards = <<>>
    /\ trick = TrickInit
    /\ players = [p \in 0..(n - 1) |-> PlayerInit]
    /\ pc = "idle"
    /\ player_number_selecting_task = 0
    /\ index = 0
    /\ err = ""

\* No call made outside the game yet.
NoCalls ==
    /\ dealt = <<>>
    /\ runs = <<>>
    /\ detached = PlayerInit

\* No comparison asked for.
NoCompare ==
    /\ args = [a |-> NoneCard, b |-> NoneCard, c |-> NoneCard]
    /\ result = [done |-> FALSE, aa |-> FALSE, ab |-> FALSE, ba |-> FALSE,
                 bc |-> FALSE, ac |-> FALSE]
    /\ NoCalls

Init == (\E n \in 1..MaxPlayers : GameInit(n)) /\ NoCompare

task_vars == <<task_cards, unchosen_task_cards, pc, player_number_selecting_task, index>>
cmp_vars == <<args, result, dealt, runs, detached>>

\* Game.new_card_deck
new_card_deck ==
    /\ pc = "idle"
    /\ deck' \in Shuffle(CardDeckCards, CardDeckCuts)
    /\ attrs' = attrs \cup {"deck"}
    /\ err' = ""
    /\ UNCHANGED <<num_players, task_deck, trick, players, task_vars, cmp_vars>>

\* Game.new_task_deck
new_task_deck ==
    /\ pc = "idle"
    /\ task_deck' \in Shuffle(TaskDeckCards, TaskDeckCuts)
    /\ attrs' = attrs \cup {"task_deck"}
    /\ err' = ""
    /\ UNCHANGED <<num_players, deck, trick, players, task_vars, cmp_vars>>

\* Game.new_trick
new_trick ==
    /\ pc = "idle"
    /\ trick' = TrickInit
    /\ attrs' = attrs \cup {"trick"}
    /\ err' = ""
    /\ UNCHANGED <<num_players, deck, task_deck, players, task_vars, cmp_vars>>

\* Game.deal_cards
deal_cards ==
    /\ pc = "idle"
    /\ IF "deck" \notin attrs
       THEN /\ err' = "AttributeError"
            /\ UNCHANGED <<deck, players>>
       ELSE \E r \in {GameDealCards(deck, players)} :
            /\ deck' = r.deck
            /\ players' = r.players
            /\ err' = r.err
    /\ UNCHANGED <<num_players, attrs, task_deck, trick, task_vars, cmp_vars>>

\* Game.new_mission: new_card_deck, new_task_deck, deal_cards, new_trick.
NewMissionStaleTrick ==
    /\ pc = "idle"
    /\ \E d \in Shuffle(CardDeckCards, CardDeckCuts) :
       \E r \in {GameDealCards(d, players)} :
       \E td \in Shuffle(TaskDeckCards, TaskDeckCuts) :
          /\ deck' = r.deck
          /\ task_deck' = td
          /\ players' = r.players
          /\ err' = r.err
          /\ trick' = trick
          /\ attrs' = attrs \cup {"deck", "task_deck", "trick"}
    /\ UNCHANGED <<num_players, task_vars, cmp_vars>>
new_mission ==
    /\ pc = "idle"
    /\ \E d \in Shuffle(CardDeckCards, CardDeckCuts) :
       \E r \in {GameDealCards(d, players)} :
       \E td \in Shuffle(TaskDeckCards, TaskDeckCuts) :
          /\ deck' = r.deck
          /\ task_deck' = td
          /\ players' = r.players
          /\ err' = r.err
          /\ IF r.err = ""
             THEN trick' = TrickInit /\ attrs' = attrs \cup {"deck", "task_deck", "trick"}
             ELSE trick' = trick /\ attrs' = attrs \cup {"deck", "task_deck"}
    /\ UNCHANGED <<num_players, task_vars, cmp_vars>>

\* Player.play_card, for the player at seat p (a player of this game):
\* hand.remove(card), then game.trick.play_card(player, card).
PlayCardDiscardSilently(p, card) ==
    /\ pc = "idle"
    /\ IF card \notin Range(players[p].hand)
       THEN /\ err' = ""
            /\ UNCHANGED <<players, trick>>
       ELSE /\ players' = [players EXCEPT
                              ![p] = SetHandList(@, ListRemove(@.hand, card))]
            /\ IF "trick" \notin attrs
               THEN err' = "AttributeError" /\ UNCHANGED trick
               ELSE err' = "" /\ trick' = TrickPlayCard(trick, p, card)
    /\ UNCHANGED <<num_players, attrs, deck, task_deck, task_vars, cmp_vars>>
play_card(p, card) ==
    /\ pc = "idle"
    /\ IF card \notin Range(players[p].hand)
       THEN /\ err' = "ValueError"
            /\ UNCHANGED <<players, trick>>
       ELSE /\ players' = [players EXCEPT
                              ![p] = SetHandList(@, ListRemove(@.hand, card))]
            /\ IF "trick" \notin attrs
               THEN err' = "AttributeError" /\ UNCHANGED trick
               ELSE err' = "" /\ trick' = TrickPlayCard(trick, p, card)
    /\ UNCHANGED <<num_players, attrs, deck, task_deck, task_vars, cmp_vars>>

PlayerPlayCard == \E p \in Seats, card \in PlayCards : play_card(p, card)

\* A mission in play: missions are set up, cards are played, tricks renewed.
Next ==
    \/ new_mission
    \/ new_trick
    \/ PlayerPlayCard

Spec == Init /\ [][Next]_vars

\* A mission in which no player plays twice into the trick it starts with.
PlayerPlayOnce ==
    \E p \in Seats, card \in PlayCards :
        p \notin TrickPlayers(trick) /\ play_card(p, card)

NextOnce ==
    \/ new_mission
    \/ PlayerPlayOnce

SpecOnce == Init /\ [][NextOnce]_vars

\* Missions set up one after the other, each at any point of the one before:
\* before, in the middle of, or after a trick.
MissionCards == {Card(3, "Blue"), Card(7, "Green")}

MissionPlay == \E p \in Seats, card \in MissionCards : play_card(p, card)

NextReset ==
    \/ new_mission
    \/ new_trick
    \/ MissionPlay

SpecReset == Init /\ [][NextReset]_vars

\* A player constructed without a game, Player(): it can draw the cards it
\* is handed, and its play_card raises before anything else happens.
DetachedHands == {<<Card(3, "Blue")>>, <<Card(8, "Blue"), Card(3, "Blue")>>}

detached_draw(cards) ==
    /\ pc = "idle"
    /\ detached' = PlayerDraw(detached, cards)
    /\ err' = ""
    /\ UNCHANGED <<num_players, attrs, deck, task_deck, trick, players, task_vars,
                   args, result, dealt, runs>>

detached_play_card(card) ==
    /\ pc = "idle"
    /\ err' = "PlayerNotInGameError"
    /\ UNCHANGED <<num_players, attrs, deck, task_deck, trick, players, task_vars,
                   cmp_vars>>

DetachedDraw == \E cards \in DetachedHands : detached_draw(cards)
DetachedPlayCard == \E card \in MissionCards : detached_play_card(card)

InitPlay == GameInit(2) /\ NoCompare

NextPlay ==
    \/ new_mission
    \/ new_trick
    \/ MissionPlay
    \/ DetachedDraw
    \/ DetachedPlayCard

SpecPlay == InitPlay /\ [][NextPlay]_vars

\* Decks built and dealt operation by operation, as the simulation driver
\* of game.py does.
NextDeal ==
    \/ new_card_deck
    \/ new_task_deck
    \/ deal_cards
    \/ new_mission

SpecDeal == Init /\ [][NextDeal]_vars

(***************************************************************************)
(* A trick played into directly: game.trick.play_card(player, card).       *)
(***************************************************************************)
\* The cards callers hand to Trick.play_card.
TrickCards ==
    {Card(3, "Blue"), Card(7, "Green"), Card(8, "Blue"), Card(1, "Rocket"), Rocket4}

\* Players are opaque dict keys to the trick, so the players new to a trick
\* are taken in seating order; a player already in it may play again.
MayPlay(p) == p \in TrickPlayers(trick) \/ p = Len(trick.cards)

trick_play_card(p, card) ==
    /\ pc = "idle"
    /\ MayPlay(p)
    /\ IF "trick" \notin attrs
       THEN err' = "AttributeError" /\ UNCHANGED trick
       ELSE err' = "" /\ trick' = TrickPlayCard(trick, p, card)
    /\ UNCHANGED <<num_players, attrs, deck, task_deck, players, task_vars, cmp_vars>>

TrickPlay == \E p \in Seats, card \in TrickCards : trick_play_card(p, card)

InitTrick == GameInit(MaxTrickPlayers) /\ NoCompare

NextTrick ==
    \/ new_trick
    \/ TrickPlay

SpecTrick == InitTrick /\ [][NextTrick]_vars

\* A trick in which no player plays twice: each play is by the next player
\* in seating order.
TrickOnceCards == TrickCards \cup {Card(5, "Blue")}

TrickPlayOnce ==
    \E p \in Seats, card \in TrickOnceCards :
        p \notin TrickPlayers(trick) /\ trick_play_card(p, card)

NextTrickOnce ==
    \/ new_trick
    \/ TrickPlayOnce

SpecTrickOnce == InitTrick /\ [][NextTrickOnce]_vars

(***************************************************************************)
(* Task cards: Game.deal_task_cards, Game.assign_task_cards and            *)
(* Player.select_task_card.                                                *)
(***************************************************************************)
\* TaskDeck.num_cards
TaskDeckNumCards == 36

\* Game.deal_task_cards(num_cards)
deal_task_cards(num_cards) ==
    /\ pc = "idle"
    /\ TaskDeckNumCards - Len(task_deck) + num_cards <= MaxTaskCards
    /\ IF "task_deck" \notin attrs
       THEN /\ err' = "AttributeError"
            /\ UNCHANGED <<attrs, task_deck, task_cards, unchosen_task_cards>>
       ELSE \E r \in {DeckDealCards(task_deck, num_cards)} :
            /\ task_deck' = r.cards
            /\ err' = r.err
            /\ IF r.err = ""
               THEN /\ task_cards' = r.dealt
                    /\ unchosen_task_cards' = r.dealt
                    /\ attrs' = attrs \cup {"task_cards", "unchosen_task_cards"}
               ELSE UNCHANGED <<attrs, task_cards, unchosen_task_cards>>
    /\ UNCHANGED <<num_players, deck, trick, players, pc,
                   player_number_selecting_task, index, cmp_vars>>

GameDealTaskCards == \E num_cards \in 0..MaxTaskCards : deal_task_cards(num_cards)

\* The while condition of Game.assign_task_cards.
PoolHasMoreThanOne(unchosen) == Len(unchosen) > 1
PoolNotEmpty(unchosen) == unchosen # <<>>

\* The step to the next selecting player in Game.assign_task_cards.
NextSeatNoWrap(seat) == IF seat + 1 < num_players THEN seat + 1 ELSE seat
NextSeat(seat) == (seat + 1) % num_players

\* Game.assign_task_cards(game) called with the game itself, up to the first
\* prompt of Player.select_task_card.
assign_task_cards ==
    /\ pc = "idle"
    /\ IF commander = -1
       THEN /\ err' = "ValueError"
            /\ UNCHANGED <<pc, player_number_selecting_task>>
       ELSE IF "unchosen_task_cards" \notin attrs
       THEN /\ err' = "AttributeError"
            /\ UNCHANGED <<pc, player_number_selecting_task>>
       ELSE IF PoolNotEmpty(unchosen_task_cards)
       THEN /\ err' = ""
            /\ pc' = "input_index"
            /\ player_number_selecting_task' = commander
       ELSE /\ err' = ""
            /\ UNCHANGED <<pc, player_number_selecting_task>>
    /\ UNCHANGED <<num_players, attrs, deck, task_deck, task_cards,
                   unchosen_task_cards, trick, players, index, cmp_vars>>

\* The numbers Player.select_task_card accepts: (i + 1) % 10 for each position.
ValidIndexes(unchosen) == {(i + 1) % 10 : i \in 0..(Len(unchosen) - 1)}

\* What the player types at "Select a task to take: ".
IndexInputs == 0..(MaxTaskCards + 1)

\* Player.select_task_card, the index prompt: a number that is not offered
\* (or no number at all) prompts again.
input_index ==
    /\ pc = "input_index"
    /\ \E typed \in IndexInputs :
          IF typed \in ValidIndexes(unchosen_task_cards)
          THEN index' = (typed - 1) % 10 /\ pc' = "input_confirmation"
          ELSE UNCHANGED <<index, pc>>
    /\ UNCHANGED <<num_players, attrs, deck, task_deck, task_cards,
                   unchosen_task_cards, trick, players,
                   player_number_selecting_task, err, cmp_vars>>

\* list.pop(i), i counted from 0.
ListPopLast(s, i) == SubSeq(s, 1, Len(s) - 1)
ListPop(s, i) == SubSeq(s, 1, i) \o SubSeq(s, i + 2, Len(s))

\* Player.select_task_card, the confirmation answered "y" or "Y": the card is
\* popped from the pool and appended to the player's tasks; back in
\* Game.assign_task_cards the next player is up while the pool lasts.
confirm_yes ==
    /\ pc = "input_confirmation"
    /\ unchosen_task_cards' = ListPop(unchosen_task_cards, index)
    /\ players' = [players EXCEPT ![player_number_selecting_task].tasks =
                      Append(@, unchosen_task_cards[index + 1])]
    /\ index' = 0
    /\ IF PoolNotEmpty(unchosen_task_cards')
       THEN /\ pc' = "input_index"
            /\ player_number_selecting_task' = NextSeat(player_number_selecting_task)
       ELSE /\ pc' = "idle"
            /\ player_number_selecting_task' = 0
    /\ UNCHANGED <<num_players, attrs, deck, task_deck, task_cards, trick, err, cmp_vars>>

\* Any other answer: select_task_card starts over for the same player.
confirm_no ==
    /\ pc = "input_confirmation"
    /\ pc' = "input_index"
    /\ index' = 0
    /\ UNCHANGED <<num_players, attrs, deck, task_deck, task_cards,
                   unchosen_task_cards, trick, players,
                   player_number_selecting_task, err, cmp_vars>>

\* The mission is set up before its task cards are dealt.
first_mission == "task_cards" \notin attrs /\ new_mission

NextTask ==
    \/ first_mission
    \/ GameDealTaskCards
    \/ assign_task_cards
    \/ input_index
    \/ confirm_yes
    \/ confirm_no

SpecTask == Init /\ [][NextTask]_vars

\* The selecting player eventually types an offered number and eventually
\* confirms.
SpecTaskFair == SpecTask /\ WF_vars(input_index) /\ SF_vars(confirm_yes)

(***************************************************************************)
(* Cards compared directly: a > b.                                         *)
(***************************************************************************)
DeckCardSet == Range(CardDeckCards)

InitCompare ==
    /\ GameInit(0)
    /\ args \in [a : DeckCardSet, b : DeckCardSet, c : DeckCardSet]
    /\ result = [done |-> FALSE, aa |-> FALSE, ab |-> FALSE, ba |-> FALSE,
                 bc |-> FALSE, ac |-> FALSE]
    /\ NoCalls

compare ==
    /\ ~result.done
    /\ result' = [done |-> TRUE,
                  aa |-> CardGt(args.a, args.a),
                  ab |-> CardGt(args.a, args.b),
                  ba |-> CardGt(args.b, args.a),
                  bc |-> CardGt(args.b, args.c),
                  ac |-> CardGt(args.a, args.c)]
    /\ UNCHANGED <<num_players, attrs, deck, task_deck, trick, players, task_vars,
                   err, args, dealt, runs, detached>>

SpecCompare == InitCompare /\ [][compare]_vars

(***************************************************************************)
(* The card deck dealt from directly: game.deck.deal_cards(num_cards).     *)
(***************************************************************************)
\* The numbers of cards callers ask for.
DealSizes == {0, 1, 2, 13, 40, 41}

\* Deck.deal_cards(num_cards) on the game's card deck.  A call that raises
\* returns nothing.
deck_deal_cards(num_cards) ==
    /\ pc = "idle"
    /\ "deck" \in attrs
    /\ \E r \in {DeckDealCards(deck, num_cards)} :
          /\ deck' = r.cards
          /\ err' = r.err
          /\ dealt' = IF r.err = "" THEN r.dealt ELSE dealt
    /\ UNCHANGED <<num_players, attrs, task_deck, trick, players, task_vars,
                   args, result, runs, detached>>

DeckDeal == \E num_cards \in DealSizes : deck_deal_cards(num_cards)

InitDeck == GameInit(1) /\ NoCompare

NextDeck ==
    \/ new_card_deck
    \/ DeckDeal

SpecDeck == InitDeck /\ [][NextDeck]_vars

(***************************************************************************)
(* Seeded runs: d = CardDeck(); d.shuffle(seed); d.deal_cards(num_cards).  *)
(***************************************************************************)
\* Deck.shuffle(seed) with a seed: random.seed(seed) fixes the generator's
\* sequence, so random.shuffle permutes the positions of the list in a way
\* that is a function of the seed (and the length) alone.  The model takes
\* for that permutation the cut at (seed mod (length - 1)) + 1.
SeedCut(cards, seed) == (seed % (Len(cards) - 1)) + 1
SeededShuffle(cards, seed) == Rotate(cards, SeedCut(cards, seed))

Seeds == {0, 42}
RunSizes == {1, 5}

\* One run: the constructor builds the deck and shuffles it without a seed,
\* shuffle(seed) shuffles it again, deal_cards(num_cards) deals.
seeded_deal(seed, num_cards) ==
    /\ Len(runs) < MaxRuns
    /\ \E d \in Shuffle(CardDeckCards, CardDeckCuts) :
       \E r \in {DeckDealCards(SeededShuffle(d, seed), num_cards)} :
          runs' = Append(runs, [seed |-> seed, num_cards |-> num_cards,
                                dealt |-> SubSeq(r.dealt, 1, num_cards)])
    /\ UNCHANGED <<num_players, attrs, deck, task_deck, trick, players, task_vars,
                   err, args, result, dealt, detached>>

SeededDeal == \E seed \in Seeds, num_cards \in RunSizes : seeded_deal(seed, num_cards)

SpecSeed == InitDeck /\ [][SeededDeal]_vars

(***************************************************************************)
(* Properties                                                              *)
(***************************************************************************)
\* A step that plays card for seat p into the current trick.
TrickPlayStep(p, card) == "trick" \in attrs /\ trick_play_card(p, card)

\* C1: a Rocket played onto a non-Rocket winning card becomes the winning
\* card, and its player the winning player; so after Blue-3, Green-7, Blue-8,
\* Rocket-1 by seats 0, 1, 2, 3 the winner is Rocket-1 of seat 3.
C1_RocketOvertakes ==
    /\ [](trick.cards = <<[player |-> 0, card |-> Card(3, "Blue")],
                          [player |-> 1, card |-> Card(7, "Green")],
                          [player |-> 2, card |-> Card(8, "Blue")],
                          [player |-> 3, card |-> Card(1, "Rocket")]>>
             => winning_card(trick) = Card(1, "Rocket") /\ winning_player(trick) = 3)
    /\ [][\A p \in Seats, card \in TrickCards :
             (/\ TrickPlayStep(p, card)
              /\ card.suit = "Rocket"
              /\ trick.cards # <<>>
              /\ trick.highest_card.suit # "Rocket")
             => winning_card(trick') = card /\ winning_player(trick') = p]_vars

\* C2: no Player.play_card changes any player's starting hand, so whoever
\* is commander before a play is commander after it.
C2_StartingHandFrozen ==
    [][PlayerPlayCard =>
          /\ \A p \in Seats : players'[p].starting_hand = players[p].starting_hand
          /\ \A p \in Seats : is_commander(players'[p]) = is_commander(players[p])
          /\ commander' = commander]_vars

\* Game.deal_cards on a newly built 40-card deck: called by itself, or as
\* part of new_mission.
FreshDeal ==
    \/ "deck" \in attrs /\ Len(deck) = CardDeckNumCards /\ deal_cards
    \/ new_mission

\* The seats whose hand holds Rocket-4, and the seats that are commander.
HoldersOfRocket4 == {p \in Seats : Rocket4 \in Range(players[p].hand)}
Commanders == {p \in Seats : is_commander(players[p])}

\* C3 (as claimed): after deal_cards on a newly built deck exactly one
\* player holds Rocket-4, exactly one is commander, and Game.commander
\* returns a player.
C3_ExactlyOneCommander ==
    [][FreshDeal =>
          /\ Cardinality(HoldersOfRocket4') = 1
          /\ Cardinality(Commanders') = 1
          /\ commander' # -1]_vars

\* C3 (amended): after deal_cards on a newly built deck at most one player
\* holds Rocket-4, the commanders are exactly its holders, and there is one
\* (Game.commander returns that player) exactly when Rocket-4 is not among
\* the undealt cards, as is the case whenever the player count divides 40.
C3_AtMostOneCommander ==
    [][FreshDeal =>
          /\ Cardinality(HoldersOfRocket4') <= 1
          /\ Commanders' = HoldersOfRocket4'
          /\ (HoldersOfRocket4' = {}) = (Rocket4 \in Range(deck'))
          /\ (HoldersOfRocket4' = {} => commander' = -1)
          /\ (HoldersOfRocket4' # {} => commander' \in HoldersOfRocket4')
          /\ (40 % num_players = 0 => Cardinality(HoldersOfRocket4') = 1)]_vars

\* Four players, all cards dealt, the player at seat 2 the only commander.
C3_Witness ==
    /\ num_players = 4
    /\ "deck" \in attrs
    /\ deck = <<>>
    /\ HoldersOfRocket4 = {2}
    /\ commander = 2

\* C4: a play by a player who already played in the current trick fails with
\* DuplicatePlayError and leaves the trick as it was.
C4_DuplicatePlayRejected ==
    [][\A p \in Seats, card \in TrickCards :
          (TrickPlayStep(p, card) /\ p \in TrickPlayers(trick))
          => err' = "DuplicatePlayError" /\ trick' = trick]_vars

\* Task cards the players hold in total.
TasksHeld ==
    Cardinality(UNION {{<<p, i>> : i \in 1..Len(players[p].tasks)} : p \in Seats})

\* C5: the k-th selection of a rotation (k = 0, 1, ...) goes to the player at
\* seat (c + k) mod num_players, c the commander's seat: that player's tasks
\* gain the card taken from the pool and no other player changes.
C5_RoundRobin ==
    [][unchosen_task_cards' # unchosen_task_cards /\ pc # "idle" =>
          LET k == Len(task_cards) - Len(unchosen_task_cards)
              seat == (commander + k) % num_players
          IN /\ Len(players'[seat].tasks) = Len(players[seat].tasks) + 1
             /\ players'[seat].tasks[Len(players'[seat].tasks)]
                    \in Range(unchosen_task_cards)
             /\ \A q \in Seats \ {seat} : players'[q] = players[q]]_vars

\* Four players, rotation started at seat 2 with three cards: seats 2, 3 and
\* 0 hold one task each, seat 1 none, and the pool is empty.
C5_Witness ==
    /\ num_players = 4
    /\ commander = 2
    /\ pc = "idle"
    /\ Len(task_cards) = 3
    /\ unchosen_task_cards = <<>>
    /\ Len(players[2].tasks) = 1
    /\ Len(players[3].tasks) = 1
    /\ Len(players[0].tasks) = 1
    /\ players[1].tasks = <<>>

\* C6: a rotation never prompts on an empty pool, each selection takes
\* exactly one card from the pool, the rotation ends only with the pool
\* empty, and (the player eventually confirming a valid choice) it ends.
C6_RotationTerminates ==
    /\ [](pc # "idle" => unchosen_task_cards # <<>>)
    /\ [][pc # "idle" /\ unchosen_task_cards' # unchosen_task_cards =>
             /\ Len(unchosen_task_cards') = Len(unchosen_task_cards) - 1
             /\ TasksHeld' = TasksHeld + 1]_vars
    /\ [][pc # "idle" /\ pc' = "idle" => unchosen_task_cards' = <<>>]_vars
    /\ (pc # "idle") ~> (pc = "idle" /\ unchosen_task_cards = <<>>)

\* A rotation over three task cards has ended: three selections were made.
C6_Witness ==
    /\ pc = "idle"
    /\ Len(task_cards) = 3
    /\ unchosen_task_cards = <<>>
    /\ TasksHeld = 3
    /\ err = ""

\* Position of x in the sequence s of distinct elements.
PositionIn(s, x) == CHOOSE i \in 1..Len(s) : s[i] = x

NonRocketPair ==
    /\ result.done
    /\ args.a.suit # "Rocket"
    /\ args.b.suit # "Rocket"
    /\ args.a.suit # args.b.suit

\* C7 (as claimed): cards of different non-Rocket suits compare by the order
\* Blue > Green > Pink > Yellow, whatever their values.
C7_DeclaredSuitOrder ==
    NonRocketPair =>
        result.ab = (PositionIn(<<"Yellow", "Pink", "Green", "Blue">>, args.a.suit)
                     > PositionIn(<<"Yellow", "Pink", "Green", "Blue">>, args.b.suit))

\* C7 (amended): cards of different non-Rocket suits compare by the order
\* Yellow > Pink > Green > Blue, whatever their values.
C7_AlphabeticalSuitOrder ==
    NonRocketPair =>
        result.ab = (PositionIn(<<"Blue", "Green", "Pink", "Yellow">>, args.a.suit)
                     > PositionIn(<<"Blue", "Green", "Pink", "Yellow">>, args.b.suit))

\* Yellow-1 was compared with Blue-9 and found greater.
C7_Witness ==
    /\ result.done
    /\ args.a = Card(1, "Yellow")
    /\ args.b = Card(9, "Blue")
    /\ result.ab

\* C8: on the cards of the deck > is a strict total order: no card is
\* greater than itself, of two different cards exactly one is greater than
\* the other, and a > b with b > c gives a > c.
C8_StrictTotalOrder ==
    result.done =>
        /\ ~result.aa
        /\ (args.a # args.b => (result.ab # result.ba))
        /\ (result.ab /\ result.bc => result.ac)

\* A chain a > b > c over three different suits was compared.
C8_Witness ==
    /\ result.done
    /\ result.ab /\ result.bc /\ result.ac
    /\ args.a.suit # args.b.suit
    /\ args.b.suit # args.c.suit
    /\ args.a.suit # args.c.suit

\* C9: a Rocket is greater than any card that is not a Rocket, and two cards
\* of one suit compare as their values do.
C9_RocketAndValue ==
    result.done =>
        /\ (args.a.suit = "Rocket" /\ args.b.suit # "Rocket"
               => result.ab /\ ~result.ba)
        /\ (args.a.suit = args.b.suit => result.ab = (args.a.value > args.b.value))

\* Rocket-1 was compared with Yellow-9 and found greater.
C9_Witness ==
    /\ result.done
    /\ args.a = Card(1, "Rocket")
    /\ args.b = Card(9, "Yellow")
    /\ result.ab
    /\ ~result.ba

\* C10: deal_cards on a newly built deck gives each of the n players
\* 40 div n cards and leaves 40 mod n cards in the deck.
C10_EvenDeal ==
    [][FreshDeal =>
          /\ \A p \in Seats : Len(players'[p].hand) = 40 \div num_players
          /\ Len(deck') = 40 % num_players
          /\ err' = ""]_vars

\* Three players hold 13 cards each and one card is left in the deck.
C10_Witness ==
    /\ num_players = 3
    /\ "deck" \in attrs
    /\ Len(deck) = 1
    /\ \A p \in Seats : Len(players[p].hand) = 13

\* C11: Deck.deal_cards(n) fails when n exceeds the cards left; otherwise it
\* returns exactly n cards, the last n of the deck with the last card first,
\* and leaves the other cards in their order, none of them a card it returned.
C11_DealFromEnd ==
    [][\A n \in DealSizes :
          deck_deal_cards(n) =>
             IF n > Len(deck)
             THEN err' = "IndexError"
             ELSE /\ err' = ""
                  /\ Len(dealt') = n
                  /\ \A i \in 1..n : dealt'[i] = deck[Len(deck) + 1 - i]
                  /\ deck' = SubSeq(deck, 1, Len(deck) - n)
                  /\ Range(dealt') \cap Range(deck') = {}]_vars

\* Two cards were dealt off the unshuffled deck: Rocket-4, then Rocket-3.
C11_Witness ==
    /\ err = ""
    /\ Len(deck) = 38
    /\ dealt = <<Card(4, "Rocket"), Card(3, "Rocket")>>

\* The cards recorded in the trick, and whether they are all different.
TrickCardSet(t) == {t.cards[i].card : i \in 1..Len(t.cards)}
DistinctCards(t) == Cardinality(TrickCardSet(t)) = Len(t.cards)

\* C12: with every player playing at most once, a card that is neither of
\* the led suit nor a Rocket leaves the winning card and the winning player
\* as they were; so Blue-3, Green-7, Blue-8 give the winner Blue-8.
C12_OffSuitNeverWins ==
    /\ [](trick.cards = <<[player |-> 0, card |-> Card(3, "Blue")],
                          [player |-> 1, card |-> Card(7, "Green")],
                          [player |-> 2, card |-> Card(8, "Blue")]>>
             => winning_card(trick) = Card(8, "Blue") /\ winning_player(trick) = 2)
    /\ [][\A p \in Seats, card \in TrickOnceCards :
             (/\ TrickPlayStep(p, card)
              /\ trick.cards # <<>>
              /\ card.suit # trick.starting_suit
              /\ card.suit # "Rocket")
             => /\ winning_card(trick') = winning_card(trick)
                /\ winning_player(trick') = winning_player(trick)]_vars

\* Blue-3, Green-7, Blue-8 were played: Blue-8 of seat 2 is winning.
C12_Witness ==
    /\ trick.cards = <<[player |-> 0, card |-> Card(3, "Blue")],
                       [player |-> 1, card |-> Card(7, "Green")],
                       [player |-> 2, card |-> Card(8, "Blue")]>>
    /\ winning_card(trick) = Card(8, "Blue")
    /\ winning_player(trick) = 2

\* C16: when different players have played different cards all of one suit,
\* in whatever order, the winning card is the one of highest value and the
\* winning player is the player who played it.
C16_OrderIndependent ==
    (/\ "trick" \in attrs
     /\ trick.cards # <<>>
     /\ DistinctCards(trick)
     /\ \A c \in TrickCardSet(trick) : c.suit = trick.cards[1].card.suit)
    => /\ winning_card(trick) \in TrickCardSet(trick)
       /\ \A c \in TrickCardSet(trick) : c.value <= winning_card(trick).value
       /\ \E i \in 1..Len(trick.cards) :
             /\ trick.cards[i].card = winning_card(trick)
             /\ trick.cards[i].player = winning_player(trick)

\* Blue-5, Blue-8, Blue-3 were played in that order: Blue-8 of seat 1 wins.
C16_Witness ==
    /\ trick.cards = <<[player |-> 0, card |-> Card(5, "Blue")],
                       [player |-> 1, card |-> Card(8, "Blue")],
                       [player |-> 2, card |-> Card(3, "Blue")]>>
    /\ winning_card(trick) = Card(8, "Blue")
    /\ winning_player(trick) = 1

\* C20: a trick nobody played into has no winning card and no winning
\* player; once different cards were played, each player playing at most
\* once, the winning card is a recorded card, the winning player is the
\* player recorded with it, and the starting suit is the first card's suit.
C20_WinnerConsistent ==
    "trick" \in attrs =>
        IF trick.cards = <<>>
        THEN /\ winning_card(trick) = NoneCard
             /\ winning_player(trick) = -1
        ELSE DistinctCards(trick) =>
             /\ \E i \in 1..Len(trick.cards) :
                   /\ trick.cards[i].card = winning_card(trick)
                   /\ trick.cards[i].player = winning_player(trick)
             /\ trick.starting_suit = trick.cards[1].card.suit

\* Blue-3, Rocket-4, Green-7 were played: the winner on record is Blue-3 of
\* seat 0, and the starting suit is Blue.
C20_Witness ==
    /\ trick.cards = <<[player |-> 0, card |-> Card(3, "Blue")],
                       [player |-> 1, card |-> Rocket4],
                       [player |-> 2, card |-> Card(7, "Green")]>>
    /\ winning_card(trick) = Card(3, "Blue")
    /\ winning_player(trick) = 0
    /\ trick.starting_suit = "Blue"

\* The cards in the players' hands.
HandCards == UNION {Range(players[p].hand) : p \in Seats}

\* C13: whatever the state new_mission is called in, afterwards the task
\* deck holds the 36 task cards, each of the n hands holds 40 div n cards,
\* the deck holds the other 40 mod n cards of the newly built deck, and the
\* trick is empty, with no starting suit, no winning card, no winning player.
C13_MissionReset ==
    [][new_mission =>
          /\ Len(task_deck') = 36
          /\ Range(task_deck') = Range(TaskDeckCards)
          /\ \A p \in Seats : Len(players'[p].hand) = 40 \div num_players
          /\ Len(deck') = 40 % num_players
          /\ Range(deck') \cup HandCards' = Range(CardDeckCards)
          /\ "trick" \in attrs'
          /\ trick'.cards = <<>>
          /\ trick'.starting_suit = NoneSuit
          /\ winning_card(trick') = NoneCard
          /\ winning_player(trick') = -1]_vars

\* A mission set up for four players: ten cards each, none left in the
\* deck, a full task deck, an empty trick.
C13_Witness ==
    /\ num_players = 4
    /\ attrs = {"deck", "task_deck", "trick"}
    /\ deck = <<>>
    /\ Len(task_deck) = 36
    /\ \A p \in Seats : Len(players[p].hand) = 10
    /\ trick = TrickInit

\* C14: two runs that shuffle a newly built CardDeck with the same seed and
\* deal the same number of cards return the same sequence of cards.
C14_SeededDealRepeats ==
    \A i, j \in 1..Len(runs) :
        (runs[i].seed = runs[j].seed /\ runs[i].num_cards = runs[j].num_cards)
        => runs[i].dealt = runs[j].dealt

\* C15: play_card of a player without a game raises PlayerNotInGameError,
\* play_card with a card that is not in the player's hand raises too
\* (ValueError), and either call leaves every hand and the trick (its cards,
\* starting suit and winning card) exactly as they were.
C15_FailedPlayChangesNothing ==
    [][/\ \A card \in MissionCards :
             detached_play_card(card) =>
                /\ err' = "PlayerNotInGameError"
                /\ detached' = detached
                /\ players' = players
                /\ trick' = trick
       /\ \A p \in Seats, card \in MissionCards :
             (play_card(p, card) /\ card \notin Range(players[p].hand)) =>
                /\ err' = "ValueError"
                /\ players' = players
                /\ trick' = trick]_vars

\* In the middle of a trick a player played a card that is not in its hand.
C15_Witness ==
    /\ err = "ValueError"
    /\ Len(trick.cards) = 1
    /\ \A p \in Seats : players[p].hand # <<>>
    /\ detached.hand # <<>>

\* The 36 cards of the four colours, and the four Rockets.
ColourCards == {Card(v, suit) : v \in 1..9, suit \in {"Blue", "Green", "Pink", "Yellow"}}
FourRockets == {Card(v, "Rocket") : v \in 1..4}

\* C17: a newly built CardDeck holds 40 different cards, the values 1..9 of
\* Blue, Green, Pink and Yellow and the Rockets 1..4 and no other Rocket; a
\* newly built TaskDeck holds the 36 cards that are not Rockets.
C17_DeckComposition ==
    [][/\ new_card_deck =>
             /\ Len(deck') = 40
             /\ Cardinality(Range(deck')) = 40
             /\ Range(deck') = ColourCards \cup FourRockets
             /\ \A c \in Range(deck') : c.suit = "Rocket" => c.value \in 1..4
       /\ new_task_deck =>
             /\ Len(task_deck') = 36
             /\ Range(task_deck') = ColourCards
             /\ \A c \in Range(task_deck') : c.suit # "Rocket"]_vars

\* Both decks were built and nothing was dealt from them.
C17_Witness ==
    /\ {"deck", "task_deck"} \subseteq attrs
    /\ Len(deck) = 40
    /\ Len(task_deck) = 36
    /\ deck[37] = Card(1, "Rocket")
    /\ task_deck[36] = Card(9, "Yellow")

\* The task cards the players hold.
AllTasks == UNION {Range(players[p].tasks) : p \in Seats}

\* C18: a confirmed selection takes one card out of the pool and appends
\* that card to the selecting player's tasks, no other player changing; no
\* step of a rotation changes task_cards; and at every point the pool and
\* the cards of task_cards the players hold are disjoint and make up
\* task_cards, card for card.
C18_SelectionMovesOneCard ==
    /\ [][confirm_yes =>
             \E c \in Range(unchosen_task_cards) :
                /\ Len(unchosen_task_cards') = Len(unchosen_task_cards) - 1
                /\ Range(unchosen_task_cards') = Range(unchosen_task_cards) \ {c}
                /\ players'[player_number_selecting_task].tasks =
                       Append(players[player_number_selecting_task].tasks, c)
                /\ \A q \in Seats \ {player_number_selecting_task} :
                       players'[q] = players[q]]_vars
    /\ [][pc # "idle" => task_cards' = task_cards]_vars
    /\ []("unchosen_task_cards" \in attrs =>
             /\ Range(unchosen_task_cards) \cap AllTasks = {}
             /\ Range(unchosen_task_cards) \cup (AllTasks \cap Range(task_cards))
                    = Range(task_cards)
             /\ Len(unchosen_task_cards)
                    + Cardinality(AllTasks \cap Range(task_cards))
                    = Len(task_cards)
             /\ Cardinality(AllTasks) = TasksHeld)

\* In a rotation over three task cards two are taken and one is left.
C18_Witness ==
    /\ pc = "input_index"
    /\ Len(task_cards) = 3
    /\ Len(unchosen_task_cards) = 1
    /\ Cardinality(AllTasks \cap Range(task_cards)) = 2

\* The number of cards in the players' hands.
HandsHeld ==
    Cardinality(UNION {{<<p, i>> : i \in 1..Len(players[p].hand)} : p \in Seats})

\* C19: from new_mission on, while each player plays at most once into the
\* mission's first trick, the deck, the hands and the trick hold 40 cards in
\* all, no card is in two of them, and together they are the 40 cards of
\* the card deck.
C19_CardConservation ==
    "deck" \in attrs =>
        /\ Len(deck) + HandsHeld + Len(trick.cards) = 40
        /\ Range(deck) \cup HandCards \cup TrickCardSet(trick) = Range(CardDeckCards)
        /\ Range(deck) \cap HandCards = {}
        /\ Range(deck) \cap TrickCardSet(trick) = {}
        /\ HandCards \cap TrickCardSet(trick) = {}
        /\ \A p, q \in Seats :
              p # q => Range(players[p].hand) \cap Range(players[q].hand) = {}

\* Three players, one card left in the deck, two cards played.
C19_Witness ==
    /\ num_players = 3
    /\ Len(deck) = 1
    /\ Len(trick.cards) = 2
    /\ HandsHeld = 37
    /\ err = ""

====
